---- MODULE Spec2Model ----
(***************************************************************************)
(* Model of flight_parser.py: the row validator (validate_row), the CSV   *)
(* file and folder parsers (parse_csv_file, parse_csv_folder), the query  *)
(* engine (execute_queries) and the command line driver (main).           *)
(*                                                                         *)
(* Python strings are sequences of one-character strings, so that strip,  *)
(* split, startswith, isupper, isalnum, float() and datetime.strptime are *)
(* computed character by character as the interpreter computes them.      *)
(***************************************************************************)
EXTENDS Integers, Sequences, FiniteSets, TLC

\* ---------------------------------------------------------------------
\* Bounds of the model
\* ---------------------------------------------------------------------
\* longest row (number of fields) handed to validate_row
MaxFields == 7
\* longest file (number of lines) handed to parse_csv_file
MaxLines == 3
\* largest number of directory entries in a folder
MaxFiles == 2
\* largest number of queries in a query file
MaxQueries == 2

\* ---------------------------------------------------------------------
\* Characters and str methods
\* ---------------------------------------------------------------------
UpperChars ==
  {"A","B","C","D","E","F","G","H","I","J","K","L","M",
   "N","O","P","Q","R","S","T","U","V","W","X","Y","Z"}

LowerChars ==
  {"a","b","c","d","e","f","g","h","i","j","k","l","m",
   "n","o","p","q","r","s","t","u","v","w","x","y","z"}

DigitChars == {"0","1","2","3","4","5","6","7","8","9"}

SpaceChars == {" ", "\t", "\n", "\r"}

DigitVal(c) ==
  CASE c = "0" -> 0 [] c = "1" -> 1 [] c = "2" -> 2 [] c = "3" -> 3
    [] c = "4" -> 4 [] c = "5" -> 5 [] c = "6" -> 6 [] c = "7" -> 7
    [] c = "8" -> 8 [] c = "9" -> 9

ToLowerChar(c) ==
  CASE c = "A" -> "a" [] c = "B" -> "b" [] c = "C" -> "c" [] c = "D" -> "d"
    [] c = "E" -> "e" [] c = "F" -> "f" [] c = "G" -> "g" [] c = "H" -> "h"
    [] c = "I" -> "i" [] c = "J" -> "j" [] c = "K" -> "k" [] c = "L" -> "l"
    [] c = "M" -> "m" [] c = "N" -> "n" [] c = "O" -> "o" [] c = "P" -> "p"
    [] c = "Q" -> "q" [] c = "R" -> "r" [] c = "S" -> "s" [] c = "T" -> "t"
    [] c = "U" -> "u" [] c = "V" -> "v" [] c = "W" -> "w" [] c = "X" -> "x"
    [] c = "Y" -> "y" [] c = "Z" -> "z" [] OTHER -> c

\* str.lower()
lower(s) == [i \in 1..Len(s) |-> ToLowerChar(s[i])]

\* str.isupper(): at least one cased character and no lowercase character
isupper(s) ==
  /\ \E i \in 1..Len(s) : s[i] \in UpperChars
  /\ \A i \in 1..Len(s) : s[i] \notin LowerChars

\* str.isalnum(): non-empty and every character a letter or a digit
isalnum(s) ==
  /\ Len(s) >= 1
  /\ \A i \in 1..Len(s) : s[i] \in UpperChars \cup LowerChars \cup DigitChars

\* str.startswith(prefix)
startswith(s, prefix) ==
  /\ Len(s) >= Len(prefix)
  /\ SubSeq(s, 1, Len(prefix)) = prefix

\* str.endswith(suffix)
endswith(s, suffix) ==
  /\ Len(s) >= Len(suffix)
  /\ SubSeq(s, Len(s) - Len(suffix) + 1, Len(s)) = suffix

\* least index j >= i with s[j] in C (inC) or not in C (~inC), or 0
RECURSIVE FindFrom(_, _, _, _)
FindFrom(s, i, C, inC) ==
  IF i > Len(s) THEN 0
  ELSE IF (s[i] \in C) = inC THEN i
  ELSE FindFrom(s, i + 1, C, inC)

\* greatest index j <= i with s[j] not in C, or 0
RECURSIVE FindLastNotIn(_, _, _)
FindLastNotIn(s, i, C) ==
  IF i < 1 THEN 0
  ELSE IF s[i] \notin C THEN i
  ELSE FindLastNotIn(s, i - 1, C)

\* str.strip(): drop the leading and the trailing whitespace
strip(s) ==
  LET lo == FindFrom(s, 1, SpaceChars, FALSE)
      hi == FindLastNotIn(s, Len(s), SpaceChars)
  IN IF lo = 0 THEN <<>> ELSE SubSeq(s, lo, hi)

\* str.split(sep) for a one-character separator
RECURSIVE split(_, _)
split(s, sep) ==
  LET i == FindFrom(s, 1, {sep}, TRUE)
  IN IF i = 0 THEN <<s>>
     ELSE <<SubSeq(s, 1, i - 1)>> \o split(SubSeq(s, i + 1, Len(s)), sep)

\* sep.join(items), one element per item and per separator occurrence
RECURSIVE join(_, _)
join(sep, items) ==
  IF Len(items) = 0 THEN <<>>
  ELSE IF Len(items) = 1 THEN <<items[1]>>
  ELSE <<items[1], sep>> \o join(sep, Tail(items))

AllDigits(s) == \A i \in 1..Len(s) : s[i] \in DigitChars

\* int value of a string of decimal digits
RECURSIVE DigitsVal(_)
DigitsVal(s) ==
  IF Len(s) = 0 THEN 0
  ELSE DigitsVal(SubSeq(s, 1, Len(s) - 1)) * 10 + DigitVal(s[Len(s)])

RECURSIVE Pow10(_)
Pow10(n) == IF n <= 0 THEN 1 ELSE 10 * Pow10(n - 1)

\* ---------------------------------------------------------------------
\* float: a value is finite (m * 10^e), an infinity or a NaN;
\* FloatError stands for the ValueError float() raises.  A finite value is
\* kept as the exact decimal the text denotes, which is the double float()
\* returns up to rounding; rounding keeps the order of the short decimals
\* the inputs are made of.
\* ---------------------------------------------------------------------
FloatError == [k |-> "err"]
NaN == [k |-> "nan"]
Inf(neg) == [k |-> "inf", neg |-> neg]
Fin(m, e) == [k |-> "fin", m |-> m, e |-> e]

\* digit-group underscores: each one between two digits
UnderscoresOK(s) ==
  \A i \in 1..Len(s) :
     s[i] = "_" => /\ i > 1 /\ i < Len(s)
                   /\ s[i - 1] \in DigitChars /\ s[i + 1] \in DigitChars

RemoveUnderscores(s) == SelectSeq(s, LAMBDA c : c # "_")

\* [sign] digits [. digits] [e [sign] digits], all of the text consumed
ParseDecimal(body, neg) ==
  LET eAt  == FindFrom(body, 1, {"e", "E"}, TRUE)
      ePos == IF eAt = 0 THEN Len(body) + 1 ELSE eAt
      mant == SubSeq(body, 1, ePos - 1)
      expo == SubSeq(body, ePos + 1, Len(body))
      eSgn == Len(expo) >= 1 /\ expo[1] \in {"+", "-"}
      eDig == IF eSgn THEN Tail(expo) ELSE expo
      eOK  == eAt = 0 \/ (Len(eDig) >= 1 /\ AllDigits(eDig))
      dots == {i \in 1..Len(mant) : mant[i] = "."}
      dPos == IF dots = {} THEN Len(mant) + 1 ELSE CHOOSE i \in dots : TRUE
      ip   == SubSeq(mant, 1, dPos - 1)
      fp   == SubSeq(mant, dPos + 1, Len(mant))
      mOK  == /\ Cardinality(dots) <= 1
              /\ AllDigits(ip) /\ AllDigits(fp)
              /\ Len(ip) + Len(fp) >= 1
      eVal == IF eAt = 0 THEN 0
              ELSE IF eSgn /\ expo[1] = "-" THEN 0 - DigitsVal(eDig)
              ELSE DigitsVal(eDig)
      mVal == DigitsVal(ip \o fp)
  IN IF mOK /\ eOK
     THEN Fin(IF neg THEN 0 - mVal ELSE mVal, eVal - Len(fp))
     ELSE FloatError

\* float(str)
ParseFloat(s) ==
  LET t    == strip(s)
      u    == IF UnderscoresOK(t) THEN RemoveUnderscores(t) ELSE <<"_">>
      sgn  == Len(u) >= 1 /\ u[1] \in {"+", "-"}
      neg  == sgn /\ u[1] = "-"
      body == IF sgn THEN Tail(u) ELSE u
      low  == lower(body)
  IN IF low \in {<<"i","n","f">>, <<"i","n","f","i","n","i","t","y">>}
     THEN Inf(neg)
     ELSE IF low = <<"n","a","n">> THEN NaN
     ELSE ParseDecimal(body, neg)

\* a < b, a <= b and a > b on floats: every comparison with a NaN is false
FloatCmp(a, b) ==
  \* -1, 0, 1 for two values that are not NaN
  LET rank(x) == IF x.k = "inf" THEN (IF x.neg THEN -1 ELSE 1) ELSE 0
      lo      == IF a.e <= b.e THEN a.e ELSE b.e
      am      == a.m * Pow10(a.e - lo)
      bm      == b.m * Pow10(b.e - lo)
  IN IF a.k = "inf" \/ b.k = "inf"
     THEN (IF rank(a) < rank(b) THEN -1 ELSE IF rank(a) > rank(b) THEN 1 ELSE 0)
     ELSE (IF am < bm THEN -1 ELSE IF am > bm THEN 1 ELSE 0)

FloatLE(a, b) == a.k # "nan" /\ b.k # "nan" /\ FloatCmp(a, b) <= 0

FloatGT(a, b) == a.k # "nan" /\ b.k # "nan" /\ FloatCmp(a, b) > 0

Zero == Fin(0, 0)

\* ---------------------------------------------------------------------
\* datetime.strptime(s, "%Y-%m-%d %H:%M"): <<year, month, day, hour,
\* minute>>, or NoneDT where strptime raises ValueError
\* ---------------------------------------------------------------------
NoneDT == <<>>

IsLeap(y) == (y % 4 = 0 /\ y % 100 # 0) \/ y % 400 = 0

DaysInMonth(y, m) ==
  IF m = 2 THEN (IF IsLeap(y) THEN 29 ELSE 28)
  ELSE IF m \in {4, 6, 9, 11} THEN 30 ELSE 31

\* one or two digits with a value in lo..hi: the directives %m, %d, %H, %M
TwoDigit(s, lo, hi) ==
  /\ Len(s) \in {1, 2}
  /\ AllDigits(s)
  /\ DigitsVal(s) >= lo /\ DigitsVal(s) <= hi

strptime(s) ==
  LET n      == Len(s)
      dash2  == FindFrom(s, 7, {"-"}, TRUE)
      \* %d also matches a space followed by one digit 1-9
      padDay == dash2 + 2 <= n /\ s[dash2 + 1] = " "
      dayLo  == IF padDay THEN dash2 + 2 ELSE dash2 + 1
      sp1    == FindFrom(s, dayLo, SpaceChars, TRUE)
      hLo    == FindFrom(s, sp1, SpaceChars, FALSE)
      col    == FindFrom(s, hLo, {":"}, TRUE)
      ys     == SubSeq(s, 1, 4)
      ms     == SubSeq(s, 6, dash2 - 1)
      ds     == SubSeq(s, dayLo, sp1 - 1)
      hs     == SubSeq(s, hLo, col - 1)
      mins   == SubSeq(s, col + 1, n)
      shape  == /\ n >= 5 /\ AllDigits(ys) /\ s[5] = "-"
                /\ dash2 # 0 /\ sp1 # 0 /\ hLo # 0 /\ col # 0
                /\ TwoDigit(ms, 1, 12)
                /\ TwoDigit(ds, 1, 31)
                /\ (padDay => Len(ds) = 1)
                /\ TwoDigit(hs, 0, 23)
                /\ TwoDigit(mins, 0, 59)
  IN IF ~shape THEN NoneDT
     ELSE LET y == DigitsVal(ys)
              m == DigitsVal(ms)
              d == DigitsVal(ds)
          IN IF y >= 1 /\ d <= DaysInMonth(y, m)
             THEN <<y, m, d, DigitsVal(hs), DigitsVal(mins)>>
             ELSE NoneDT

\* a < b on two datetimes
RECURSIVE SeqLess(_, _)
SeqLess(a, b) ==
  IF Len(a) = 0 \/ Len(b) = 0 THEN FALSE
  ELSE IF a[1] # b[1] THEN a[1] < b[1]
  ELSE SeqLess(Tail(a), Tail(b))

DTLess(a, b) == SeqLess(a, b)

DTLessEq(a, b) == a = b \/ SeqLess(a, b)

\* ---------------------------------------------------------------------
\* validate_row
\* ---------------------------------------------------------------------
FlightIdErrors(flight_id) ==
  IF ~(2 <= Len(flight_id) /\ Len(flight_id) <= 8) \/ ~isalnum(flight_id)
  THEN <<"invalid flight_id">> ELSE <<>>

CodeError(code, name) ==
  IF Len(code) # 3 \/ ~isupper(code)
  THEN <<"invalid " \o name \o " code">> ELSE <<>>

CodeErrors(origin, destination) ==
  CodeError(origin, "origin") \o CodeError(destination, "destination")

\* DatetimeDefects with the comparison arr < dep in place of arr <= dep
DatetimeDefects_strict(dep, arr) ==
  (IF dep = NoneDT THEN <<"invalid departure datetime">> ELSE <<>>)
  \o (IF arr = NoneDT THEN <<"invalid arrival datetime">> ELSE <<>>)
  \o (IF dep # NoneDT /\ arr # NoneDT /\ DTLess(arr, dep)
      THEN <<"arrival before departure">> ELSE <<>>)

\* the defects of two datetimes after strptime parsed them (NoneDT: it raised)
DatetimeDefects(dep, arr) ==
  (IF dep = NoneDT THEN <<"invalid departure datetime">> ELSE <<>>)
  \o (IF arr = NoneDT THEN <<"invalid arrival datetime">> ELSE <<>>)
  \o (IF dep # NoneDT /\ arr # NoneDT /\ DTLessEq(arr, dep)
      THEN <<"arrival before departure">> ELSE <<>>)

DatetimeErrors(dep_dt, arr_dt) ==
  DatetimeDefects(strptime(dep_dt), strptime(arr_dt))

\* PriceDefects with the test price_val <= 0 moved into the except branch
PriceDefects_conflated(price_val) ==
  IF price_val = FloatError \/ FloatLE(price_val, Zero)
  THEN <<"invalid price">>
  ELSE <<>>

\* the defect of a price after float() parsed it (FloatError: it raised)
PriceDefects(price_val) ==
  IF price_val = FloatError THEN <<"invalid price">>
  ELSE IF FloatLE(price_val, Zero) THEN <<"negative price value">>
  ELSE <<>>

PriceErrors(price) == PriceDefects(ParseFloat(price))

\* the return statement of validate_row
RowResult(parts, errs) ==
  IF errs # <<>>
  THEN [ok |-> FALSE, result |-> join(", ", errs)]
  ELSE [ok |-> TRUE,
        result |-> [flight_id          |-> parts[1],
                    origin             |-> parts[2],
                    destination        |-> parts[3],
                    departure_datetime |-> parts[4],
                    arrival_datetime   |-> parts[5],
                    price              |-> ParseFloat(parts[6])]]

\* validate_row returning at the first defect
validate_row_shortcircuit(parts) ==
  IF Len(parts) # 6
  THEN [ok |-> FALSE, result |-> <<"missing required fields">>]
  ELSE LET errs == FlightIdErrors(parts[1])
                   \o CodeErrors(parts[2], parts[3])
                   \o DatetimeErrors(parts[4], parts[5])
                   \o PriceErrors(parts[6])
       IN RowResult(parts, IF errs = <<>> THEN <<>> ELSE <<errs[1]>>)

\* validate_row with the field count test len(parts) < 6
validate_row_atleast(parts) ==
  IF Len(parts) < 6
  THEN [ok |-> FALSE, result |-> <<"missing required fields">>]
  ELSE RowResult(parts,
                 FlightIdErrors(parts[1])
                 \o CodeErrors(parts[2], parts[3])
                 \o DatetimeErrors(parts[4], parts[5])
                 \o PriceErrors(parts[6]))

validate_row(parts) ==
  IF Len(parts) # 6
  THEN [ok |-> FALSE, result |-> <<"missing required fields">>]
  ELSE RowResult(parts,
                 FlightIdErrors(parts[1])
                 \o CodeErrors(parts[2], parts[3])
                 \o DatetimeErrors(parts[4], parts[5])
                 \o PriceErrors(parts[6]))

\* ---------------------------------------------------------------------
\* parse_csv_file, parse_csv_folder, save_errors
\* ---------------------------------------------------------------------
\* a path that open() cannot read
Unreadable == [readable |-> FALSE, lines |-> <<>>]

TextFile(ls) == [readable |-> TRUE, lines |-> ls]

\* AddRow numbering the entries by a counter of the lines kept so far
AddRow_counter(acc, line_number, original, r) ==
  IF r.ok
  THEN [acc EXCEPT !.valid = Append(@, r.result)]
  ELSE [acc EXCEPT !.errors =
          Append(@, <<Len(acc.valid) + Len(acc.errors) + 1, original,
                      r.result>>)]

\* the end of the loop body: the record or the entry of a validated row
AddRow(acc, line_number, original, r) ==
  IF r.ok
  THEN [acc EXCEPT !.valid = Append(@, r.result)]
  ELSE [acc EXCEPT !.errors = Append(@, <<line_number, original, r.result>>)]

\* [p.strip() for p in cells]
StripAll(cells) == [i \in 1..Len(cells) |-> strip(cells[i])]

\* the loop body of parse_csv_file after original = line.strip()
ParseStripped(acc, line_number, original) ==
  IF original = <<>> THEN acc
  ELSE IF startswith(original, <<"#">>)
  THEN [acc EXCEPT !.errors =
          Append(@, <<line_number, original,
                      <<"comment line, ignored for data parsing">> >>)]
  ELSE AddRow(acc, line_number, original,
              validate_row(StripAll(split(original, ","))))

\* the loop body of parse_csv_file for the line at position line_number
ParseLine(acc, line_number, line) ==
  ParseStripped(acc, line_number, strip(line))

RECURSIVE ParseLines(_, _, _)
ParseLines(acc, ls, line_number) ==
  IF line_number > Len(ls) THEN acc
  ELSE ParseLines(ParseLine(acc, line_number, ls[line_number]),
                  ls, line_number + 1)

\* raised: open() failed and the exception leaves the function
parse_csv_file(path) ==
  IF ~path.readable
  THEN [raised |-> TRUE, valid |-> <<>>, errors |-> <<>>]
  ELSE ParseLines([raised |-> FALSE, valid |-> <<>>, errors |-> <<>>],
                  path.lines, 1)

\* the loop of parse_csv_folder over os.listdir(folder_path); an exception
\* of parse_csv_file leaves the loop and the function
RECURSIVE FolderLoop(_, _, _)
FolderStep(acc, listing, i, r) ==
  IF r.raised
  THEN [raised |-> TRUE, valid |-> <<>>, errors |-> <<>>]
  ELSE FolderLoop([acc EXCEPT !.valid  = @ \o r.valid,
                              !.errors = @ \o r.errors],
                  listing, i + 1)

FolderLoop(acc, listing, i) ==
  IF i > Len(listing) THEN acc
  ELSE IF ~endswith(lower(listing[i].name), <<".","c","s","v">>)
  THEN FolderLoop(acc, listing, i + 1)
  ELSE FolderStep(acc, listing, i, parse_csv_file(listing[i].file))

parse_csv_folder(listing) ==
  FolderLoop([raised |-> FALSE, valid |-> <<>>, errors |-> <<>>], listing, 1)

\* the lines save_errors writes to output/errors.txt (" -> " stands for
\* the arrow character between the text and the message)
save_errors(errs) ==
  [i \in 1..Len(errs) |->
     <<"Line ", errs[i][1], ": ", errs[i][2], " -> ", errs[i][3], "\n">>]

\* ---------------------------------------------------------------------
\* execute_queries
\* ---------------------------------------------------------------------
\* a JSON value of a query's price: a number or a string
JNum(v) == [t |-> "num", v |-> v]
JStr(s) == [t |-> "str", s |-> s]

\* float(q["price"])
ToFloat(j) == IF j.t = "num" THEN j.v ELSE ParseFloat(j.s)

\* the three equality tests of the loop body
KeysMatch(q, flight) ==
  \A key \in {"flight_id", "origin", "destination"} :
     ~(key \in DOMAIN q /\ flight[key] # q[key])

\* a datetime test of the loop body; bound and value are what strptime
\* returned: "raise" where a strptime raised, else whether the test leaves
\* ok alone
DatetimeTest(present, lowFirst, q_dt, f_dt) ==
  IF ~present THEN "ok"
  ELSE IF q_dt = NoneDT \/ f_dt = NoneDT THEN "raise"
  ELSE IF lowFirst /\ DTLess(f_dt, q_dt) THEN "no"
  ELSE IF ~lowFirst /\ DTLess(q_dt, f_dt) THEN "no"
  ELSE "ok"

\* the price test of the loop body; q_price is what float() returned
PriceTest(present, f_price, q_price) ==
  IF ~present THEN "ok"
  ELSE IF q_price = FloatError THEN "raise"
  ELSE IF FloatGT(f_price, q_price) THEN "no"
  ELSE "ok"

Field(q, key, absent) == IF key \in DOMAIN q THEN q[key] ELSE absent

\* the loop body for one flight: "raise", "match" or "skip"
Combine(keys, dep, arr, price) ==
  IF "raise" \in {dep, arr, price} THEN "raise"
  ELSE IF keys /\ dep = "ok" /\ arr = "ok" /\ price = "ok" THEN "match"
  ELSE "skip"

MatchFlight(q, flight) ==
  Combine(KeysMatch(q, flight),
          DatetimeTest("departure_datetime" \in DOMAIN q, TRUE,
                       strptime(Field(q, "departure_datetime", <<>>)),
                       strptime(flight["departure_datetime"])),
          DatetimeTest("arrival_datetime" \in DOMAIN q, FALSE,
                       strptime(Field(q, "arrival_datetime", <<>>)),
                       strptime(flight["arrival_datetime"])),
          PriceTest("price" \in DOMAIN q, flight["price"],
                    ToFloat(Field(q, "price", JNum(Zero)))))

\* the matches of one query, or raised where the loop body raises
RECURSIVE MatchLoop(_, _, _, _)
MatchStep(q, database, i, matches, m) ==
  IF m = "raise" THEN [raised |-> TRUE, matches |-> <<>>]
  ELSE MatchLoop(q, database, i + 1,
                 IF m = "match" THEN Append(matches, database[i])
                 ELSE matches)

MatchLoop(q, database, i, matches) ==
  IF i > Len(database) THEN [raised |-> FALSE, matches |-> matches]
  ELSE MatchStep(q, database, i, matches, MatchFlight(q, database[i]))

\* the loop over the queries; an exception leaves the function before
\* the response file is written
RECURSIVE QueryLoop(_, _, _, _)
QueryStep(queries, database, i, responses, r) ==
  IF r.raised THEN [raised |-> TRUE, responses |-> <<>>]
  ELSE QueryLoop(queries, database, i + 1,
                 Append(responses, [query   |-> queries[i],
                                    matches |-> r.matches]))

QueryLoop(queries, database, i, responses) ==
  IF i > Len(queries) THEN [raised |-> FALSE, responses |-> responses]
  ELSE QueryStep(queries, database, i, responses,
                 MatchLoop(queries[i], database, 1, <<>>))

\* a query file holds one query object or a list of them
QueryList(doc) == IF doc.isdict THEN <<doc.value>> ELSE doc.value

execute_queries(database, doc) ==
  QueryLoop(QueryList(doc), database, 1, <<>>)

\* ---------------------------------------------------------------------
\* Texts the inputs are made of
\* ---------------------------------------------------------------------
S_AB12 ==
  <<"A","B","1","2">>

S_A ==
  <<"A">>

S_AB_1 ==
  <<"A","B","-","1">>

S_NYC ==
  <<"N","Y","C">>

S_LAX ==
  <<"L","A","X">>

S_NY ==
  <<"N","Y">>

S_LAXX ==
  <<"L","A","X","X">>

S_A1B ==
  <<"A","1","B">>

S_nyc ==
  <<"n","y","c">>

S_T0800 ==
  <<"2","0","2","4","-","0","1","-","0","1"," ","0","8",":","0","0">>

S_T1000 ==
  <<"2","0","2","4","-","0","1","-","0","1"," ","1","0",":","0","0">>

S_T1200 ==
  <<"2","0","2","4","-","0","1","-","0","1"," ","1","2",":","0","0">>

S_T9am ==
  <<"2","0","2","4","-","1","-","1"," ","9",":","0","0">>

S_Tbad ==
  <<"2","0","2","4","-","1","3","-","4","0"," ","9","9",":","9","9">>

S_bad ==
  <<"b","a","d">>

S_100 ==
  <<"1","0","0">>

S_250_50 ==
  <<"2","5","0",".","5","0">>

S_minus5 ==
  <<"-","5">>

S_0 ==
  <<"0">>

S_nan ==
  <<"n","a","n">>

S_1e2 ==
  <<"1","e","2">>

L_blank ==
  <<"\n">>

L_spaces ==
  <<" "," ","\n">>

L_comment ==
  <<"#"," ","f","l","i","g","h","t","s","\n">>

L_row1 ==
  <<"A","B","1","2",",","N","Y","C",",","L","A","X",",","2","0","2","4","-",
    "0","1","-","0","1"," ","0","8",":","0","0",",","2","0","2","4","-","0",
    "1","-","0","1"," ","1","0",":","0","0",",","1","0","0","\n">>

L_row2 ==
  <<" "," ","C","D","3","4"," ",","," ","L","A","X"," ",",","N","Y","C",",",
    "2","0","2","4","-","0","1","-","0","1"," ","1","0",":","0","0",",","2",
    "0","2","4","-","0","1","-","0","1"," ","1","2",":","0","0",",","2","5",
    "0",".","5","0","\n">>

L_rowNaN ==
  <<"E","F","5","6",",","N","Y","C",",","L","A","X",",","2","0","2","4","-",
    "0","1","-","0","1"," ","0","8",":","0","0",",","2","0","2","4","-","0",
    "1","-","0","1"," ","1","0",":","0","0",",","n","a","n","\n">>

L_rowMany ==
  <<"A",",","N","Y",",","L","A","X","X",",","2","0","2","4","-","1","3","-",
    "4","0"," ","9","9",":","9","9",",","b","a","d",",","-","5","\n">>

L_rowShort ==
  <<" "," ","A","B","1","2",",","N","Y","C","\n">>

L_rowOrder ==
  <<"A","B","1","2",",","N","Y","C",",","L","A","X",",","2","0","2","4","-",
    "0","1","-","0","1"," ","1","0",":","0","0",",","2","0","2","4","-","0",
    "1","-","0","1"," ","0","8",":","0","0",",","1","0","0","\n">>

N_a_csv ==
  <<"a",".","c","s","v">>

N_b_CSV ==
  <<"b",".","C","S","V">>

N_n_txt ==
  <<"n","o","t","e","s",".","t","x","t">>

N_x_csv ==
  <<"x",".","c","s","v">>

\* ---------------------------------------------------------------------
\* Inputs
\* ---------------------------------------------------------------------
FlightIds == {S_AB12, S_A, S_AB_1}

Origins == {S_NYC, S_NY, S_A1B, S_nyc}

Destinations == {S_LAX, S_LAXX, S_A1B}

Departures == {S_T0800, S_T1000, S_T9am, S_Tbad}

Arrivals == {S_T1000, S_T0800, S_T1200, S_bad}

Prices == {S_100, S_250_50, S_minus5, S_0, S_bad, S_nan, S_1e2}

Rows6 ==
  {<<f, o, d, dp, ar, p>> :
     f \in FlightIds, o \in Origins, d \in Destinations,
     dp \in Departures, ar \in Arrivals, p \in Prices}

RowsNot6 ==
  UNION {[1..n -> {S_AB12, S_bad}] : n \in (0..MaxFields) \ {6}}

Rows == Rows6 \cup RowsNot6

SeqsUpTo(S, n) == UNION {[1..k -> S] : k \in 0..n}

LineSet ==
  {L_blank, L_spaces, L_comment, L_row1, L_row2, L_rowNaN, L_rowMany,
   L_rowShort, L_rowOrder}

InputFiles ==
  {TextFile(ls) : ls \in SeqsUpTo(LineSet, MaxLines)} \cup {Unreadable}

DirEntries ==
  {[name |-> N_a_csv, file |-> TextFile(<<L_row1, L_rowMany>>)],
   [name |-> N_b_CSV, file |-> TextFile(<<L_comment, L_row2>>)],
   [name |-> N_n_txt, file |-> TextFile(<<L_rowNaN>>)],
   [name |-> N_x_csv, file |-> Unreadable]}

\* os.listdir: distinct names, in any order
Listings ==
  {l \in SeqsUpTo(DirEntries, MaxFiles) :
     \A i, j \in 1..Len(l) : i # j => l[i].name # l[j].name}

\* the contents output/db.json can have: what a run of main -i or
\* main -d saves
Datasets ==
  {parse_csv_file(f).valid : f \in InputFiles \ {Unreadable}}
  \cup {parse_csv_folder(l).valid : l \in Listings}

QuerySet ==
  {[k \in {} |-> 0],
   [price |-> JNum(Fin(100, 0))],
   [origin |-> S_NYC],
   [departure_datetime |-> S_T1000],
   [arrival_datetime |-> S_T1000, price |-> JStr(S_250_50)],
   [flight_id |-> S_AB12, destination |-> S_LAX],
   [departure_datetime |-> S_bad],
   [arrival_datetime |-> S_Tbad]}

QueryDocs ==
  {[isdict |-> TRUE, value |-> q] : q \in QuerySet}
  \cup {[isdict |-> FALSE, value |-> qs] : qs \in SeqsUpTo(QuerySet, MaxQueries)}

\* ---------------------------------------------------------------------
\* State
\* ---------------------------------------------------------------------
VARIABLES
  args,         \* the call: validate_row(parts) or a command line of main
  pc,           \* "start" before the call runs, "done" after it
  vres,         \* what validate_row returned
  valid,        \* main: the records the parser returned
  errors,       \* main: the entries the parser returned
  exc,          \* the exception the run of main ended with, or "none"
  db_json,      \* output/db.json
  errors_txt,   \* output/errors.txt
  response_file \* the response file of the run

vars ==
  <<args, pc, vres, valid, errors, exc, db_json, errors_txt, response_file>>

NoFile == [exists |-> FALSE, data |-> <<>>]

File(data) == [exists |-> TRUE, data |-> data]

NotCalled == [ok |-> FALSE, result |-> <<>>]

\* a call of validate_row or a run of main, before it starts
Init ==
  /\ pc = "start"
  /\ vres = NotCalled
  /\ valid = <<>>
  /\ errors = <<>>
  /\ exc = "none"
  /\ errors_txt = NoFile
  /\ response_file = NoFile
  /\ \/ /\ args \in {[op |-> "validate_row", arg |-> p] : p \in Rows}
        /\ db_json = NoFile
     \/ /\ args \in {[op |-> "input", arg |-> f] : f \in InputFiles}
        /\ db_json = NoFile
     \/ /\ args \in {[op |-> "dir", arg |-> l] : l \in Listings}
        /\ db_json = NoFile
     \/ /\ args \in {[op |-> "query", arg |-> doc] : doc \in QueryDocs}
        /\ db_json \in {File(d) : d \in Datasets}

\* validate_row(parts)
ValidateRow ==
  /\ pc = "start"
  /\ args.op = "validate_row"
  /\ vres' = validate_row(args.arg)
  /\ pc' = "done"
  /\ UNCHANGED <<args, valid, errors, exc, db_json, errors_txt, response_file>>

\* what main does with the parser's return value: save it, or end with
\* the exception the parser raised
SaveParsed(r) ==
  IF r.raised
  THEN /\ exc' = "OSError"
       /\ UNCHANGED <<valid, errors, db_json, errors_txt>>
  ELSE /\ exc' = "none"
       /\ valid' = r.valid
       /\ errors' = r.errors
       /\ db_json' = File(r.valid)
       /\ errors_txt' = File(save_errors(r.errors))

\* main -i FILE
MainInput ==
  /\ pc = "start"
  /\ args.op = "input"
  /\ SaveParsed(parse_csv_file(args.arg))
  /\ pc' = "done"
  /\ UNCHANGED <<args, vres, response_file>>

\* main -d FOLDER
MainDir ==
  /\ pc = "start"
  /\ args.op = "dir"
  /\ SaveParsed(parse_csv_folder(args.arg))
  /\ pc' = "done"
  /\ UNCHANGED <<args, vres, response_file>>

\* the end of execute_queries: write the response file, unless the loop
\* raised
WriteResponse(r) ==
  IF r.raised
  THEN /\ exc' = "ValueError"
       /\ UNCHANGED response_file
  ELSE /\ exc' = "none"
       /\ response_file' = File(r.responses)

\* main -j output/db.json -q QUERIES
MainQuery ==
  /\ pc = "start"
  /\ args.op = "query"
  /\ WriteResponse(execute_queries(db_json.data, args.arg))
  /\ pc' = "done"
  /\ UNCHANGED <<args, vres, valid, errors, db_json, errors_txt>>

Next == ValidateRow \/ MainInput \/ MainDir \/ MainQuery

Spec == Init /\ [][Next]_vars

\* ---------------------------------------------------------------------
\* Properties
\* ---------------------------------------------------------------------
\* validate_row has returned for the row parts
parts == args.arg

Validated == pc = "done" /\ args.op = "validate_row"

Validated6 == Validated /\ Len(parts) = 6

\* the defect reasons of a joined message, in order
Defects(msg) == [i \in 1..((Len(msg) + 1) \div 2) |-> msg[2 * i - 1]]

DefectsOf(r) == IF r.ok THEN <<>> ELSE Defects(r.result)

Has(r, defect) == \E i \in 1..Len(DefectsOf(r)) : DefectsOf(r)[i] = defect

ThreeUppercaseLetters(s) ==
  Len(s) = 3 /\ \A i \in 1..Len(s) : s[i] \in UpperChars

\* C1: validate_row accepts an origin and a destination only if it is
\* exactly 3 uppercase letters: a code that is not gets its defect
\* "invalid origin code" / "invalid destination code", and a returned
\* FlightRecord has both codes made of exactly 3 uppercase letters.
C1_CodesAreThreeUppercaseLetters ==
  Validated6 =>
    /\ Has(vres, "invalid origin code") <=> ~ThreeUppercaseLetters(parts[2])
    /\ Has(vres, "invalid destination code")
         <=> ~ThreeUppercaseLetters(parts[3])
    /\ vres.ok => /\ ThreeUppercaseLetters(vres.result.origin)
                  /\ ThreeUppercaseLetters(vres.result.destination)

\* ---- queries --------------------------------------------------------
Queried == pc = "done" /\ args.op = "query"

queries == QueryList(args.arg)

BadDatetimeQuery(q) ==
  \/ "departure_datetime" \in DOMAIN q /\ strptime(q.departure_datetime) = NoneDT
  \/ "arrival_datetime" \in DOMAIN q /\ strptime(q.arrival_datetime) = NoneDT

WellFormedQuery(q) ==
  /\ ~BadDatetimeQuery(q)
  /\ "price" \in DOMAIN q => ToFloat(q.price).k = "fin"

\* the response file holds a QueryResult for the query
HasQueryResult(q) ==
  /\ response_file.exists
  /\ \E k \in 1..Len(response_file.data) : response_file.data[k].query = q

\* C2: a query whose departure_datetime or arrival_datetime does not parse
\* ends in an error for every dataset, the empty one included, and every
\* other query of the batch still has its QueryResult in the response.
C2_BadQueryFailsAlone ==
  Queried =>
    \A i \in 1..Len(queries) :
       BadDatetimeQuery(queries[i]) =>
         /\ exc # "none"
         /\ \A j \in 1..Len(queries) :
               ~BadDatetimeQuery(queries[j]) => HasQueryResult(queries[j])

\* ---- folders --------------------------------------------------------
DirParsed == pc = "done" /\ args.op = "dir"

IsCsvName(name) == endswith(lower(name), <<".","c","s","v">>)

\* every element of the sequence part occurs in the sequence whole
AllIn(part, whole) ==
  \A i \in 1..Len(part) : \E k \in 1..Len(whole) : whole[k] = part[i]

\* C3: in a folder, a file that cannot be read fails only that file: the
\* records and the defects of every readable .csv file of the folder are
\* part of the batch result.
C3_UnreadableFileFailsAlone ==
  DirParsed =>
    \A i \in 1..Len(args.arg) :
       (IsCsvName(args.arg[i].name) /\ args.arg[i].file.readable) =>
          /\ AllIn(parse_csv_file(args.arg[i].file).valid, valid)
          /\ AllIn(parse_csv_file(args.arg[i].file).errors, errors)
          /\ db_json.exists
          /\ AllIn(parse_csv_file(args.arg[i].file).valid, db_json.data)

\* ---- the row of the example ------------------------------------------
RowMany == <<S_A, S_NY, S_LAXX, S_Tbad, S_bad, S_minus5>>

\* C4 as stated: the row "A,NY,LAXX,2024-13-40 99:99,bad,-5" fails with at
\* least five defects, among them "invalid flight_id", "invalid origin
\* code", "invalid destination code", "invalid departure datetime" and
\* "invalid price".
C4_FiveDefectsWithInvalidPrice ==
  (Validated /\ parts = RowMany) =>
    /\ ~vres.ok
    /\ Len(DefectsOf(vres)) >= 5
    /\ \A d \in {"invalid flight_id", "invalid origin code",
                 "invalid destination code", "invalid departure datetime",
                 "invalid price"} : Has(vres, d)

\* C4 amended: the row "A,NY,LAXX,2024-13-40 99:99,bad,-5" fails with the
\* six defects "invalid flight_id", "invalid origin code", "invalid
\* destination code", "invalid departure datetime", "invalid arrival
\* datetime" and "negative price value", in this order; "invalid price" is
\* not among them, since -5 parses as a number.
C4_SixDefectsWithNegativePrice ==
  (Validated /\ parts = RowMany) =>
    /\ ~vres.ok
    /\ DefectsOf(vres) =
         <<"invalid flight_id", "invalid origin code",
           "invalid destination code", "invalid departure datetime",
           "invalid arrival datetime", "negative price value">>

C4_Witness == Validated /\ parts = RowMany /\ Len(DefectsOf(vres)) = 6

\* ---- prices -----------------------------------------------------------
PositiveNumber(v) == v.k \in {"fin", "inf"} /\ FloatGT(v, Zero)

\* C5: a returned FlightRecord has a price that is a number strictly
\* greater than 0; a row gets at most one of "invalid price" and "negative
\* price value", and a price that is not a positive number gets one of them.
C5_PriceIsPositiveNumber ==
  Validated6 =>
    /\ vres.ok => PositiveNumber(vres.result.price)
    /\ ~(Has(vres, "invalid price") /\ Has(vres, "negative price value"))
    /\ ~PositiveNumber(ParseFloat(parts[6]))
         => (Has(vres, "invalid price") \/ Has(vres, "negative price value"))

\* ---- no short circuit -------------------------------------------------
FieldValues ==
  <<FlightIds, Origins, Destinations, Departures, Arrivals, Prices>>

\* the defects in rule order
RuleOrder ==
  <<"invalid flight_id", "invalid origin code", "invalid destination code",
    "invalid departure datetime", "invalid arrival datetime",
    "arrival before departure", "invalid price", "negative price value">>

\* the fields the rule of the k-th defect of RuleOrder reads
RuleFields == <<{1}, {2}, {3}, {4}, {5}, {4, 5}, {6}, {6}>>

Rank(defect) == CHOOSE k \in 1..Len(RuleOrder) : RuleOrder[k] = defect

\* C6: on a 6-field row, whether a rule's defect is reported does not
\* depend on a field the rule does not read (replacing any one field by any
\* other value leaves the defects of the other rules as they are), and the
\* reported defects appear in rule order.
C6_NoShortCircuit ==
  Validated6 =>
    /\ \A i \in 1..Len(DefectsOf(vres)) :
          /\ \E k \in 1..Len(RuleOrder) : RuleOrder[k] = DefectsOf(vres)[i]
          /\ i > 1 => Rank(DefectsOf(vres)[i - 1]) < Rank(DefectsOf(vres)[i])
    /\ \A f \in 1..6 : \A v \in FieldValues[f] :
          \A k \in 1..Len(RuleOrder) :
             f \notin RuleFields[k] =>
               (Has(validate_row([parts EXCEPT ![f] = v]), RuleOrder[k])
                  <=> Has(vres, RuleOrder[k]))

C6_Witness ==
  /\ Validated6
  /\ DefectsOf(vres) =
       <<"invalid flight_id", "arrival before departure", "invalid price">>

\* ---- ordering of the datetimes ----------------------------------------
\* C7: when both datetimes of a 6-field row parse, "arrival before
\* departure" is reported exactly when arrival is not strictly after
\* departure; when one of them does not parse it is not reported; a
\* returned FlightRecord has its arrival strictly after its departure.
C7_ArrivalStrictlyAfterDeparture ==
  Validated6 =>
    /\ (strptime(parts[4]) # NoneDT /\ strptime(parts[5]) # NoneDT)
         => (Has(vres, "arrival before departure")
               <=> ~DTLess(strptime(parts[4]), strptime(parts[5])))
    /\ (strptime(parts[4]) = NoneDT \/ strptime(parts[5]) = NoneDT)
         => ~Has(vres, "arrival before departure")
    /\ vres.ok => DTLess(strptime(vres.result.departure_datetime),
                         strptime(vres.result.arrival_datetime))

\* equal timestamps are rejected
C7_Witness ==
  /\ Validated6
  /\ parts[4] = S_T1000 /\ parts[5] = S_T1000
  /\ DefectsOf(vres) = <<"arrival before departure">>

\* ---- field count ------------------------------------------------------
\* C8: a row whose field count is not 6 fails with exactly the one defect
\* "missing required fields", whatever its fields hold.
C8_MissingRequiredFields ==
  (Validated /\ Len(parts) # 6) =>
    /\ ~vres.ok
    /\ vres.result = <<"missing required fields">>

C8_Witness ==
  /\ Validated /\ Len(parts) = 7
  /\ \A i \in 1..7 : parts[i] = S_bad
  /\ vres.result = <<"missing required fields">>

\* ---- matching ---------------------------------------------------------
\* the record satisfies every constraint present in the query
Satisfies(q, rec) ==
  /\ \A key \in {"flight_id", "origin", "destination"} :
        key \in DOMAIN q => rec[key] = q[key]
  /\ "departure_datetime" \in DOMAIN q =>
        DTLessEq(strptime(q.departure_datetime),
                 strptime(rec.departure_datetime))
  /\ "arrival_datetime" \in DOMAIN q =>
        DTLessEq(strptime(rec.arrival_datetime),
                 strptime(q.arrival_datetime))
  /\ "price" \in DOMAIN q => FloatLE(rec.price, ToFloat(q.price))

\* C9: for every dataset and every well-formed query, the match list holds
\* exactly the records that satisfy all the constraints present in the
\* query, in dataset order; the empty query returns the whole dataset.
C9_MatchesAreTheSatisfyingRecords ==
  (Queried /\ \A i \in 1..Len(queries) : WellFormedQuery(queries[i])) =>
    /\ response_file.exists
    /\ Len(response_file.data) = Len(queries)
    /\ \A i \in 1..Len(queries) :
          /\ response_file.data[i].query = queries[i]
          /\ response_file.data[i].matches =
               SelectSeq(db_json.data, LAMBDA rec : Satisfies(queries[i], rec))

\* ---- accounting of the lines of a file --------------------------------
FileParsed == pc = "done" /\ args.op = "input" /\ args.arg.readable

lines == args.arg.lines

IsBlankLine(line) == \A i \in 1..Len(line) : line[i] \in SpaceChars

IsCommentLine(line) ==
  /\ ~IsBlankLine(line)
  /\ line[FindFrom(line, 1, SpaceChars, FALSE)] = "#"

\* the fields of a data line: split on commas, each field trimmed
FieldsOf(line) == StripAll(split(strip(line), ","))

\* the line without its line terminator
RawText(line) ==
  IF Len(line) >= 1 /\ line[Len(line)] = "\n"
  THEN SubSeq(line, 1, Len(line) - 1) ELSE line

\* the positions of the lines that yield an entry, and a record
EntryLines ==
  {i \in 1..Len(lines) :
     \/ IsCommentLine(lines[i])
     \/ ~IsBlankLine(lines[i]) /\ ~validate_row(FieldsOf(lines[i])).ok}

RecordLines ==
  {i \in 1..Len(lines) :
     /\ ~IsBlankLine(lines[i]) /\ ~IsCommentLine(lines[i])
     /\ validate_row(FieldsOf(lines[i])).ok}

\* the k-th smallest element of a set of numbers
Nth(S, k) == CHOOSE i \in S : Cardinality({j \in S : j <= i}) = k

\* every line is accounted for exactly once, in line order; Text(line) is
\* the text an entry carries
Accounted(Text(_)) ==
  /\ Len(errors) = Cardinality(EntryLines)
  /\ Len(valid) = Cardinality(RecordLines)
  /\ \A k \in 1..Len(errors) :
        /\ errors[k][1] = Nth(EntryLines, k)
        /\ errors[k][2] = Text(lines[Nth(EntryLines, k)])
        /\ errors[k][3] =
             IF IsCommentLine(lines[Nth(EntryLines, k)])
             THEN <<"comment line, ignored for data parsing">>
             ELSE validate_row(FieldsOf(lines[Nth(EntryLines, k)])).result
  /\ \A k \in 1..Len(valid) :
        valid[k] = validate_row(FieldsOf(lines[Nth(RecordLines, k)])).result

====
